---- MODULE Spec2Model ----
(***************************************************************************)
(* Model of the content formatting pipeline (src/libs/utils.ts) and of the *)
(* revalidation webhook (src/app/api/revalidate/route.ts).                 *)
(*                                                                         *)
(* Strings are sequences of one-character strings, so that the regular     *)
(* expressions of the Pattern Library are computed on characters.          *)
(***************************************************************************)
EXTENDS Naturals, Sequences, FiniteSets

VARIABLES
    content,        \* formatContent / isMarkdown: the content string
    contentType,    \* formatContent: the type hint as passed by the caller
    failAt,         \* the step of htmlToMarkdown that threw (0: none)
    result,         \* formatContent: what the call produced
    verdict,        \* isMarkdown: the classification record
    doc,            \* formatRichText / convertCodeBlocks: the <pre><code> blocks
    hlOut,          \* formatRichText: the outcome
    fenceOut,       \* convertCodeBlocks: the outcome
    tree,           \* convertLists: the list element (tag, child nodes)
    cursor,         \* convertLists: position of the each() loop
    emitted,        \* convertLists: the replacement texts in emission order
    req,            \* POST: the request (secret, environment, body)
    resp,           \* POST: the response
    revalidated     \* POST: the revalidatePath calls, in order

vars == <<content, contentType, failAt, result, verdict, doc, hlOut, fenceOut,
          tree, cursor, emitted, req, resp, revalidated>>

----------------------------------------------------------------------------
(* Bounds of the model *)

\* segments concatenated into a content string for the classifier
MaxSegs == 6
\* segments concatenated into a content string for formatContent
MaxPipeSegs == 3
\* elements of a sequence type hint
MaxHintLen == 2
\* <pre><code> blocks of a document
MaxBlocks == 2
\* child nodes of a list element
MaxItems == 4
\* tags of a webhook payload
MaxTags == 2
\* segments concatenated into a content string for the pattern count
MaxBoxSegs == 3

----------------------------------------------------------------------------
(* Characters and character classes of JavaScript regular expressions *)

Letters ==
    {"a","b","c","d","e","f","g","h","i","j","k","l","m","n","o","p","q","r",
     "s","t","u","v","w","x","y","z","A","B","C","D","E","F","G","H","I","J",
     "K","L","M","N","O","P","Q","R","S","T","U","V","W","X","Y","Z"}

Digits == {"0","1","2","3","4","5","6","7","8","9"}

LineTerminators == {"\n", "\r"}

Whitespace == {" ", "\t", "\f"} \cup LineTerminators

\* the character U+0060, which a TLA+ string cannot hold
Backtick == "U+0060"

\* \s
IsSpace(c) == c \in Whitespace

\* ^ under the m flag: the start of input or just after a line terminator
LineStart(s, i) == i = 1 \/ (i > 1 /\ i <= Len(s) + 1 /\ s[i-1] \in LineTerminators)

\* $ under the m flag: the end of input or just before a line terminator
LineEnd(s, i) == i = Len(s) + 1 \/ (i >= 1 /\ i <= Len(s) /\ s[i] \in LineTerminators)

\* s[i..j-1] is all whitespace (the empty range included)
AllSpace(s, i, j) == \A k \in i..(j-1) : IsSpace(s[k])

\* t occurs in s at position i
At(s, i, t) ==
    /\ i >= 1
    /\ i + Len(t) - 1 <= Len(s)
    /\ \A k \in 1..Len(t) : s[i + k - 1] = t[k]

\* ^\s*t under the m flag: t after optional whitespace at a line start
AtLinePrefix(s, t) ==
    \E j \in 1..Len(s) :
        /\ At(s, j, t)
        /\ \E i \in 1..j : LineStart(s, i) /\ AllSpace(s, i, j)

\* open [^x]{min,} close : a delimited run with no character of excl inside
Delimited(s, open, excl, min, close) ==
    \E i \in 1..Len(s) :
        /\ At(s, i, open)
        /\ \E j \in (i + Len(open) + min)..Len(s) :
              /\ At(s, j, close)
              /\ \A k \in (i + Len(open))..(j - 1) : s[k] \notin excl

\* String.prototype.trim
RECURSIVE TrimStart(_)
TrimStart(s) == IF s # <<>> /\ IsSpace(Head(s)) THEN TrimStart(Tail(s)) ELSE s

RECURSIVE TrimEnd(_)
TrimEnd(s) ==
    IF s # <<>> /\ IsSpace(s[Len(s)]) THEN TrimEnd(SubSeq(s, 1, Len(s) - 1)) ELSE s

trim(s) == TrimEnd(TrimStart(s))

----------------------------------------------------------------------------
(* Pattern Library: src/libs/utils.ts lines 14-18 and 64-81 *)

\* /<[a-z][\s\S]*>/i
HTML_TAG_PATTERN(s) ==
    \E i \in 1..(Len(s) - 1) :
        /\ s[i] = "<"
        /\ s[i+1] \in Letters
        /\ \E j \in (i + 2)..Len(s) : s[j] = ">"

\* /<[a-z][\s\S]*?>/gi : the end of the leftmost lazy match starting at or
\* after position i, or 0 when there is none
TagMatchEnd(s, i) ==
    LET starts == {p \in i..Len(s) :
                      /\ s[p] = "<"
                      /\ p + 1 <= Len(s)
                      /\ s[p+1] \in Letters
                      /\ \E j \in (p + 2)..Len(s) : s[j] = ">"}
    IN  IF starts = {} THEN 0
        ELSE LET p == CHOOSE x \in starts : \A y \in starts : x <= y
                 ends == {j \in (p + 2)..Len(s) : s[j] = ">"}
             IN  CHOOSE x \in ends : \A y \in ends : x <= y

\* the number of matches of HTML_TAG_COUNT_PATTERN from position i on
RECURSIVE HTML_TAG_COUNT_PATTERN(_, _)
HTML_TAG_COUNT_PATTERN(s, i) ==
    LET e == TagMatchEnd(s, i)
    IN  IF e = 0 THEN 0 ELSE 1 + HTML_TAG_COUNT_PATTERN(s, e + 1)

\* /^#{1,6}\s+/m
HEADING_PATTERN(s) ==
    \E i \in 1..Len(s) :
        /\ LineStart(s, i)
        /\ s[i] = "#"
        /\ \E k \in 1..6 :
              /\ i + k <= Len(s)
              /\ \A h \in i..(i + k - 1) : s[h] = "#"
              /\ IsSpace(s[i + k])

\* /^\s*[-*+]\s+/m
LIST_PATTERN(s) ==
    \E j \in 1..(Len(s) - 1) :
        /\ s[j] \in {"-", "*", "+"}
        /\ IsSpace(s[j + 1])
        /\ \E i \in 1..j : LineStart(s, i) /\ AllSpace(s, i, j)

\* /^\s*\d+\.\s+/m
ORDERED_LIST_PATTERN(s) ==
    \E d \in 2..(Len(s) - 1) :
        /\ s[d] = "."
        /\ IsSpace(s[d + 1])
        /\ \E j \in 1..(d - 1) :
              /\ \A k \in j..(d - 1) : s[k] \in Digits
              /\ \E i \in 1..j : LineStart(s, i) /\ AllSpace(s, i, j)

\* /^---+\s*$/m
RulePattern(s) ==
    \E i \in 1..Len(s) :
        /\ LineStart(s, i)
        /\ At(s, i, <<"-", "-", "-">>)
        /\ \E d \in (i + 3)..(Len(s) + 1) :
              /\ \A k \in i..(d - 1) : s[k] = "-"
              /\ \E e \in d..(Len(s) + 1) : AllSpace(s, d, e) /\ LineEnd(s, e)

\* /^\s*\|.+\|/m
TablePattern(s) ==
    \E j \in 1..Len(s) :
        /\ s[j] = "|"
        /\ \E i \in 1..j : LineStart(s, i) /\ AllSpace(s, i, j)
        /\ \E e \in (j + 2)..Len(s) :
              /\ s[e] = "|"
              /\ \A k \in (j + 1)..(e - 1) : s[k] \notin LineTerminators

\* /!\[([^\]]*)\]\(([^)]+)\)/ and /\[([^\]]+)\]\(([^)]+)\)/
LinkPattern(s, open, min) ==
    \E i \in 1..Len(s) :
        /\ At(s, i, open)
        /\ \E j \in (i + Len(open) + min)..Len(s) :
              /\ At(s, j, <<"]", "(">>)
              /\ \A k \in (i + Len(open))..(j - 1) : s[k] # "]"
              /\ \E e \in (j + 3)..Len(s) :
                    /\ s[e] = ")"
                    /\ \A k \in (j + 2)..(e - 1) : s[k] # ")"

\* the matchers in the order of the MARKDOWN_PATTERNS array
MARKDOWN_PATTERNS(s) ==
    << HEADING_PATTERN(s),
       LIST_PATTERN(s),
       ORDERED_LIST_PATTERN(s),
       Delimited(s, <<Backtick, Backtick, Backtick>>, {}, 0,
                 <<Backtick, Backtick, Backtick>>),
       Delimited(s, <<Backtick>>, {Backtick}, 1, <<Backtick>>),
       LinkPattern(s, <<"[">>, 1),
       LinkPattern(s, <<"!","[">>, 0),
       Delimited(s, <<"*","*">>, {"*"}, 1, <<"*","*">>),
       Delimited(s, <<"*">>, {"*"}, 1, <<"*">>),
       Delimited(s, <<"_","_">>, {"_"}, 1, <<"_","_">>),
       Delimited(s, <<"_">>, {"_"}, 1, <<"_">>),
       \E i \in 1..(Len(s) - 1) : LineStart(s, i) /\ s[i] = ">" /\ IsSpace(s[i+1]),
       RulePattern(s),
       TablePattern(s),
       AtLinePrefix(s, <<"[","x","]">>),
       AtLinePrefix(s, <<"[", " ", "]">>) >>

countMarkdownPatterns(s) ==
    LET m == MARKDOWN_PATTERNS(s)
    IN  Cardinality({k \in 1..Len(m) : m[k]})

countHtmlTags(s) == HTML_TAG_COUNT_PATTERN(s, 1)

hasHtmlTags(s) == HTML_TAG_PATTERN(s)

MAX_HTML_TAGS == 5

MIN_MARKDOWN_PATTERNS == 2

\* the threshold compared with <= instead of <
isMarkdownInclusive(s) ==
    IF s = <<>> \/ Len(trim(s)) = 0 THEN FALSE
    ELSE IF hasHtmlTags(s)
         THEN /\ countHtmlTags(s) <= MAX_HTML_TAGS
              /\ countMarkdownPatterns(s) >= MIN_MARKDOWN_PATTERNS
         ELSE countMarkdownPatterns(s) > 0

isMarkdown(s) ==
    IF s = <<>> \/ Len(trim(s)) = 0 THEN FALSE
    ELSE IF hasHtmlTags(s)
         THEN /\ countHtmlTags(s) < MAX_HTML_TAGS
              /\ countMarkdownPatterns(s) >= MIN_MARKDOWN_PATTERNS
         ELSE countMarkdownPatterns(s) > 0

----------------------------------------------------------------------------
(* Content strings *)

\* the pieces content strings are built from: a tag, an unclosed tag start,
\* a lone closing bracket, a heading holding an emphasis, a line break
Segments ==
    { <<"<", "a", ">">>,
      <<"<", "a">>,
      <<">">>,
      <<"#", " ", "*", "a", "*">>,
      <<"\n">> }

RECURSIVE ContentsUpTo(_)
ContentsUpTo(n) ==
    IF n = 0 THEN {<<>>}
    ELSE LET shorter == ContentsUpTo(n - 1)
         IN  shorter \cup {c \o g : c \in shorter, g \in Segments}

----------------------------------------------------------------------------
(* The classifier, applied: src/libs/utils.ts lines 99-119 *)

NoVerdict == [called |-> FALSE, markdown |-> FALSE]

\* a call of isMarkdown(content)
IsMarkdownCall ==
    /\ ~verdict.called
    /\ verdict' = [called |-> TRUE, markdown |-> isMarkdown(content)]
    /\ UNCHANGED <<content, contentType, failAt, result, doc, hlOut, fenceOut,
                   tree, cursor, emitted, req, resp, revalidated>>

----------------------------------------------------------------------------
(* Type hints: src/libs/utils.ts line 11 and lines 227-232 *)

HintStrings == {"markdown", "html", "", "text"}

Undefined == [tag |-> "undefined", str |-> "", arr |-> <<>>]

Str(h) == [tag |-> "string", str |-> h, arr |-> <<>>]

Arr(a) == [tag |-> "array", str |-> "", arr |-> a]

RECURSIVE HintSeqsUpTo(_)
HintSeqsUpTo(n) ==
    IF n = 0 THEN {<<>>}
    ELSE LET shorter == HintSeqsUpTo(n - 1)
         IN  shorter \cup {Append(a, h) : a \in shorter, h \in HintStrings}

ContentTypes ==
    {Undefined} \cup {Str(h) : h \in HintStrings}
                \cup {Arr(a) : a \in HintSeqsUpTo(MaxHintLen)}

\* contentType[0] of an empty array is undefined
normalizeContentTypeLast(ct) ==
    IF ct.tag = "array"
    THEN IF ct.arr = <<>> THEN Undefined ELSE Str(ct.arr[Len(ct.arr)])
    ELSE ct

normalizeContentType(ct) ==
    IF ct.tag = "array"
    THEN IF ct.arr = <<>> THEN Undefined ELSE Str(ct.arr[1])
    ELSE ct

----------------------------------------------------------------------------
(* The pipeline: src/libs/utils.ts lines 28-61 and 206-288                 *)
(*                                                                         *)
(* A value in flight is the content it started from (src), the             *)
(* transformations applied to it so far (ops), the functions called so far *)
(* (trace) and whether an exception is propagating (raised).               *)

Start(c) ==
    [called |-> TRUE, src |-> c, ops |-> <<>>, trace |-> <<>>, raised |-> FALSE]

Called(st, f) == [st EXCEPT !.trace = Append(@, f)]

Applied(st, f) ==
    IF st.raised THEN st
    ELSE [st EXCEPT !.ops = Append(@, f), !.trace = Append(@, f)]

\* formatRichText as a stage: cheerio load, highlight of each block, $.html()
formatRichTextStage(st) == Applied(st, "formatRichText")

\* formatMarkdown: remark with remark-gfm and remark-html
formatMarkdownStage(st) == Applied(st, "formatMarkdown")

formatMarkdownWithoutHighlight(st) == formatMarkdownStage(st)

formatMarkdownWithHighlight(st) == formatRichTextStage(formatMarkdownStage(st))

\* the statements of htmlToMarkdown's try block, in order
ReducerSteps ==
    << "load", "convertCodeBlocks", "convertHeadings", "convertLists",
       "convertTextFormatting", "convertLinks", "convertParagraphs", "text.trim" >>

\* the revision without the try block: the exception reaches the caller
htmlToMarkdownNoCatch(st, f) ==
    LET t == Called(st, "htmlToMarkdown")
    IN  IF f = 0 THEN [t EXCEPT !.ops = @ \o ReducerSteps]
        ELSE [t EXCEPT !.ops = @ \o SubSeq(ReducerSteps, 1, f - 1), !.raised = TRUE]

\* f = 0: every step succeeds; f = k: step k throws, the catch block logs the
\* error and returns the html it was given
htmlToMarkdown(st, f) ==
    LET t == Called(st, "htmlToMarkdown")
    IN  IF f = 0 THEN [t EXCEPT !.ops = @ \o ReducerSteps]
        ELSE t

processMarkdownContentAlwaysReduce(st, f) ==
    formatMarkdownWithHighlight(htmlToMarkdown(Called(st, "hasHtmlTags"), f))

processMarkdownContent(st, f) ==
    LET t == Called(st, "hasHtmlTags")
    IN  IF hasHtmlTags(st.src)
        THEN formatMarkdownWithHighlight(htmlToMarkdown(t, f))
        ELSE formatMarkdownWithHighlight(t)

\* the dispatch on the hint as passed, not on the normalized hint
formatContentRawHint(c, ct, f) ==
    IF ct = Str("markdown") THEN processMarkdownContent(Start(c), f)
    ELSE IF ct = Str("html") THEN formatRichTextStage(Start(c))
    ELSE LET t == Called(Start(c), "isMarkdown")
         IN  IF isMarkdown(c) THEN formatMarkdownWithHighlight(t)
             ELSE formatRichTextStage(t)

formatContent(c, ct, f) ==
    LET normalizedContentType == normalizeContentType(ct)
    IN  IF normalizedContentType = Str("markdown")
        THEN processMarkdownContent(Start(c), f)
        ELSE IF normalizedContentType = Str("html")
        THEN formatRichTextStage(Start(c))
        ELSE LET t == Called(Start(c), "isMarkdown")
             IN  IF isMarkdown(c) THEN formatMarkdownWithHighlight(t)
                 ELSE formatRichTextStage(t)

NoResult == [called |-> FALSE, src |-> <<>>, ops |-> <<>>, trace |-> <<>>,
             raised |-> FALSE]

\* the steps of htmlToMarkdown that can throw in a call: none (0) in a call
\* that does not reach htmlToMarkdown
FailPoints(c, ct) ==
    IF normalizeContentType(ct) = Str("markdown") /\ hasHtmlTags(c)
    THEN 0..Len(ReducerSteps)
    ELSE {0}

\* a call of formatContent(content, contentType), awaited to its end
FormatContent ==
    /\ ~result.called
    /\ \E f \in FailPoints(content, contentType) :
          /\ failAt' = f
          /\ result' = formatContent(content, contentType, f)
    /\ UNCHANGED <<content, contentType, verdict, doc, hlOut, fenceOut,
                   tree, cursor, emitted, req, resp, revalidated>>

----------------------------------------------------------------------------
(* Code blocks: the highlighter (src/libs/utils.ts lines 28-48) and the    *)
(* reducer's code-block pass (lines 191-203)                               *)

LanguagePrefix == <<"l", "a", "n", "g", "u", "a", "g", "e", "-">>

HljsClass == <<"h", "l", "j", "s">>

\* the class attributes of the code elements considered; NoClass is a code
\* element without the attribute
NoClass == [present |-> FALSE, value |-> <<>>]

Class(v) == [present |-> TRUE, value |-> v]

ClassAttrs ==
    { NoClass,
      Class(<<>>),
      Class(<<"j", "s">>),
      Class(LanguagePrefix \o <<"j", "s">>),
      Class(LanguagePrefix \o <<"z", "z">>),
      Class(LanguagePrefix),
      Class(LanguagePrefix \o <<"j", "s", " ">> \o HljsClass),
      Class(HljsClass \o <<" ">> \o LanguagePrefix \o <<"j", "s">>),
      Class(<<" ", "j", "s">>),
      Class(LanguagePrefix \o LanguagePrefix \o <<"j", "s">>),
      Class(HljsClass) }

RECURSIVE DocsUpTo(_)
DocsUpTo(n) ==
    IF n = 0 THEN {<<>>}
    ELSE LET shorter == DocsUpTo(n - 1)
         IN  shorter \cup {Append(d, [class |-> a, html |-> "text"]) :
                               d \in shorter, a \in ClassAttrs}

\* the languages highlight.js has registered, among the names considered
RegisteredLanguages == { <<"j", "s">> }

\* lang.replace(/^language-/, '')
StripLanguagePrefix(s) ==
    IF At(s, 1, LanguagePrefix) THEN SubSeq(s, Len(LanguagePrefix) + 1, Len(s))
    ELSE s

\* s.split(/\s+/)[0]: the characters before the first whitespace
RECURSIVE FirstToken(_)
FirstToken(s) ==
    IF s = <<>> \/ IsSpace(Head(s)) THEN <<>>
    ELSE <<Head(s)>> \o FirstToken(Tail(s))

\* $(elm).attr('class') || ''
ClassOrEmpty(a) == IF a.present THEN a.value ELSE <<>>

Auto == [how |-> "highlightAuto", language |-> <<>>, raised |-> FALSE]

\* hljs.highlight(text, {language}) throws for a language it does not know
HljsHighlight(language) ==
    IF language \in RegisteredLanguages
    THEN [how |-> "highlight", language |-> language, raised |-> FALSE]
    ELSE [how |-> "highlight", language |-> language, raised |-> TRUE]

\* the inner function without its try block
highlightNoCatch(lang) ==
    IF lang = <<>> THEN Auto
    ELSE HljsHighlight(FirstToken(StripLanguagePrefix(lang)))

\* the inner function highlight(text, lang) of formatRichText
highlight(lang) ==
    IF lang = <<>> THEN Auto
    ELSE LET res == HljsHighlight(FirstToken(StripLanguagePrefix(lang)))
         IN  IF res.raised THEN Auto ELSE res

\* cheerio's addClass: the attribute is set when it is missing or empty, and
\* the name is appended unless the space-separated list already holds it
addClass(a, name) ==
    IF ~a.present \/ a.value = <<>> THEN Class(name)
    ELSE LET set == <<" ">> \o a.value \o <<" ">>
             has == \E i \in 1..Len(set) : At(set, i, <<" ">> \o name \o <<" ">>)
         IN  Class(trim(IF has THEN set ELSE set \o name \o <<" ">>))

\* the each() callback on one code element
HighlightBlock(b) ==
    LET res == highlight(ClassOrEmpty(b.class))
    IN  IF res.raised THEN [block |-> b, raised |-> TRUE, how |-> res.how]
        ELSE [block |-> [class |-> addClass(b.class, HljsClass),
                         html |-> "highlighted"],
              raised |-> FALSE, how |-> res.how]

\* $('pre code').each(...): an exception ends the loop and the call
RECURSIVE HighlightEach(_, _, _)
HighlightEach(blocks, k, hows) ==
    IF k > Len(blocks) THEN [blocks |-> blocks, hows |-> hows, raised |-> FALSE]
    ELSE LET r == HighlightBlock(blocks[k])
         IN  IF r.raised
             THEN [blocks |-> blocks, hows |-> Append(hows, r.how), raised |-> TRUE]
             ELSE HighlightEach([blocks EXCEPT ![k] = r.block], k + 1,
                                Append(hows, r.how))

formatRichText(d) == HighlightEach(d, 1, <<>>)

\* the language convertCodeBlocks writes after the opening fence:
\* $(elm).attr('class')?.replace(/^language-/, '') || ''
FenceLanguage(a) == IF a.present THEN StripLanguagePrefix(a.value) ELSE <<>>

\* the fences written for the blocks of a document
convertCodeBlocks(d) == [k \in 1..Len(d) |-> FenceLanguage(d[k].class)]

NoHlOut == [called |-> FALSE, blocks |-> <<>>, hows |-> <<>>, raised |-> FALSE]

NoFenceOut == [called |-> FALSE, langs |-> <<>>]

\* a call of formatRichText on a document holding the blocks of doc
FormatRichText ==
    /\ ~hlOut.called
    /\ LET r == formatRichText(doc)
       IN  hlOut' = [called |-> TRUE, blocks |-> r.blocks, hows |-> r.hows,
                     raised |-> r.raised]
    /\ UNCHANGED <<content, contentType, failAt, result, verdict, doc, fenceOut,
                   tree, cursor, emitted, req, resp, revalidated>>

\* the code-block pass of htmlToMarkdown on a document holding the blocks of doc
ConvertCodeBlocks ==
    /\ ~fenceOut.called
    /\ fenceOut' = [called |-> TRUE, langs |-> convertCodeBlocks(doc)]
    /\ UNCHANGED <<content, contentType, failAt, result, verdict, doc, hlOut,
                   tree, cursor, emitted, req, resp, revalidated>>

----------------------------------------------------------------------------
(* Lists: the reducer's list pass, src/libs/utils.ts lines 132-143         *)

ItemTexts == {"a", "b"}

\* a child node of the list element: an item, or a text node (the white
\* space between items, or the text an item was replaced by)
Li(t) == [kind |-> "li", marker |-> "", num |-> 0, text |-> t]

TextNode(m, n, t) == [kind |-> "#text", marker |-> m, num |-> n, text |-> t]

ChildNodes == {Li(t) : t \in ItemTexts} \cup {TextNode("", 0, "\n")}

RECURSIVE ChildrenUpTo(_)
ChildrenUpTo(n) ==
    IF n = 0 THEN {<<>>}
    ELSE LET shorter == ChildrenUpTo(n - 1)
         IN  shorter \cup {Append(c, x) : c \in shorter, x \in ChildNodes}

Trees == [tag : {"ul", "ol"}, children : ChildrenUpTo(MaxItems)]

\* $('ul li') / $('ol li'): the positions of the items, in document order
RECURSIVE Select(_, _)
Select(children, k) ==
    IF k > Len(children) THEN <<>>
    ELSE (IF children[k].kind = "li" THEN <<k>> ELSE <<>>) \o Select(children, k + 1)

\* $(elm).parent().children().index(elm) + 1 : children() holds the element
\* children of the live tree, and no text node
LiveIndex(children, k) ==
    Cardinality({j \in 1..(k - 1) : children[j].kind # "#text"}) + 1

Idle == [phase |-> "idle", sel |-> <<>>, i |-> 1]

\* convertLists is called: the selection is made before the loop runs
ConvertListsStart ==
    /\ cursor.phase = "idle"
    /\ cursor' = [phase |-> "each", sel |-> Select(tree.children, 1), i |-> 1]
    /\ UNCHANGED <<content, contentType, failAt, result, verdict, doc, hlOut,
                   fenceOut, tree, emitted, req, resp, revalidated>>

\* the callback of $('ul li').each on the next selected item
ConvertUlItem ==
    /\ cursor.phase = "each"
    /\ tree.tag = "ul"
    /\ cursor.i <= Len(cursor.sel)
    /\ LET k == cursor.sel[cursor.i]
           t == TextNode("- ", 0, tree.children[k].text)
       IN  /\ tree' = [tree EXCEPT !.children[k] = t]
           /\ emitted' = Append(emitted, t)
    /\ cursor' = [cursor EXCEPT !.i = @ + 1]
    /\ UNCHANGED <<content, contentType, failAt, result, verdict, doc, hlOut,
                   fenceOut, req, resp, revalidated>>

\* the callback of $('ol li').each on the next selected item
ConvertOlItem ==
    /\ cursor.phase = "each"
    /\ tree.tag = "ol"
    /\ cursor.i <= Len(cursor.sel)
    /\ LET k == cursor.sel[cursor.i]
           index == LiveIndex(tree.children, k)
           t == TextNode(". ", index, tree.children[k].text)
       IN  /\ tree' = [tree EXCEPT !.children[k] = t]
           /\ emitted' = Append(emitted, t)
    /\ cursor' = [cursor EXCEPT !.i = @ + 1]
    /\ UNCHANGED <<content, contentType, failAt, result, verdict, doc, hlOut,
                   fenceOut, req, resp, revalidated>>

\* both loops have run through their selections
ConvertListsEnd ==
    /\ cursor.phase = "each"
    /\ cursor.i > Len(cursor.sel)
    /\ cursor' = [cursor EXCEPT !.phase = "done"]
    /\ UNCHANGED <<content, contentType, failAt, result, verdict, doc, hlOut,
                   fenceOut, tree, emitted, req, resp, revalidated>>

----------------------------------------------------------------------------
(* The revalidation webhook: src/app/api/revalidate/route.ts               *)

JsNull == [tag |-> "null", str |-> ""]

JsUndefined == [tag |-> "undefined", str |-> ""]

JsString(x) == [tag |-> "string", str |-> x]

\* req.nextUrl.searchParams.get('secret'): null when the parameter is absent
Secrets == {JsNull, JsString(""), JsString("s3cret"), JsString("wrong")}

\* process.env.REVALIDATE_SECRET: undefined when the variable is not set
EnvSecrets == {JsUndefined, JsString(""), JsString("s3cret")}

\* an id is a string; "" stands for an id that is missing or empty (both falsy)
ContentIds == {"", "abc"}

TopIds == {"", "xyz"}

TagIds == {"", "t1", "t2"}

RECURSIVE TagListsUpTo(_)
TagListsUpTo(n) ==
    IF n = 0 THEN {<<>>}
    ELSE LET shorter == TagListsUpTo(n - 1)
         IN  shorter \cup {Append(l, t) : l \in shorter, t \in TagIds}

\* contents.tags: missing, a value that is no array, or an array of tag objects
TagsValues ==
    {[kind |-> k, items |-> <<>>] : k \in {"missing", "scalar"}}
        \cup {[kind |-> "array", items |-> l] : l \in TagListsUpTo(MaxTags)}

NoTags == [kind |-> "missing", items |-> <<>>]

\* the request body: text that is no JSON, or an object with an optional
\* contents object and an optional id of its own
Bodies ==
    {[json |-> FALSE, hasContents |-> FALSE, contentsId |-> "", tags |-> NoTags,
      id |-> ""]}
      \cup {[json |-> TRUE, hasContents |-> FALSE, contentsId |-> "",
             tags |-> NoTags, id |-> i] : i \in TopIds}
      \cup {[json |-> TRUE, hasContents |-> TRUE, contentsId |-> c, tags |-> t,
             id |-> i] : c \in ContentIds, t \in TagsValues, i \in TopIds}

Requests == [secret : Secrets, env : EnvSecrets, body : Bodies]

Truthy(x) == x # ""

\* a || b on ids
OrElse(a, b) == IF Truthy(a) THEN a ELSE b

\* secret != process.env.REVALIDATE_SECRET : null and undefined compare equal
LooselyDiffers(secret, env) ==
    IF secret.tag = "null" /\ env.tag = "undefined" THEN FALSE ELSE secret # env

\* secret !== process.env.REVALIDATE_SECRET
StrictlyDiffers(secret, env) == secret # env

\* the paths revalidated for the tags, in order
RECURSIVE TagPaths(_)
TagPaths(items) ==
    IF items = <<>> THEN <<>>
    ELSE (IF Truthy(Head(items)) THEN << <<"tags", Head(items)>> >> ELSE <<>>)
             \o TagPaths(Tail(items))

\* the handler: the response and the revalidatePath calls it made
POSTHandler(r) ==
    IF StrictlyDiffers(r.secret, r.env)
    THEN [status |-> 401, message |-> "Invalid secret", revalidated |-> FALSE,
          contentId |-> "", calls |-> <<>>]
    ELSE IF ~r.body.json
    THEN [status |-> 500, message |-> "Revalidation failed", revalidated |-> FALSE,
          contentId |-> "", calls |-> <<>>]
    ELSE LET contentId == OrElse(r.body.contentsId, r.body.id)
             article == IF Truthy(contentId) THEN << <<"articles", contentId>> >>
                        ELSE <<>>
             tagged == IF r.body.hasContents /\ r.body.tags.kind = "array"
                       THEN TagPaths(r.body.tags.items) ELSE <<>>
         IN  [status |-> 200, message |-> "", revalidated |-> TRUE,
              contentId |-> contentId,
              calls |-> article \o << <<>>, <<"search">> >> \o tagged]

NoResponse == [done |-> FALSE, status |-> 0, message |-> "", revalidated |-> FALSE,
               contentId |-> ""]

\* a POST request handled to its response
POST ==
    /\ ~resp.done
    /\ LET h == POSTHandler(req)
       IN  /\ resp' = [done |-> TRUE, status |-> h.status, message |-> h.message,
                       revalidated |-> h.revalidated, contentId |-> h.contentId]
           /\ revalidated' = h.calls
    /\ UNCHANGED <<content, contentType, failAt, result, verdict, doc, hlOut,
                   fenceOut, tree, cursor, emitted, req>>

----------------------------------------------------------------------------
(* Specifications *)

NoRequest == [secret |-> JsNull, env |-> JsUndefined,
              body |-> [json |-> FALSE, hasContents |-> FALSE, contentsId |-> "",
                        tags |-> NoTags, id |-> ""]]

NoTree == [tag |-> "ul", children |-> <<>>]

\* the parts of the state a specification does not use
PipelineIdle == contentType = Undefined /\ failAt = 0 /\ result = NoResult

ClassifierIdle == verdict = NoVerdict

CodeBlocksIdle == doc = <<>> /\ hlOut = NoHlOut /\ fenceOut = NoFenceOut

ListsIdle == tree = NoTree /\ cursor = Idle /\ emitted = <<>>

WebhookIdle == req = NoRequest /\ resp = NoResponse /\ revalidated = <<>>

\* formatContent on every content and type hint considered
Init ==
    /\ content \in ContentsUpTo(MaxPipeSegs)
    /\ contentType \in ContentTypes
    /\ failAt = 0
    /\ result = NoResult
    /\ ClassifierIdle /\ CodeBlocksIdle /\ ListsIdle /\ WebhookIdle

Next == FormatContent

Spec == Init /\ [][Next]_vars

\* isMarkdown on every content considered
InitClassify ==
    /\ content \in ContentsUpTo(MaxSegs)
    /\ PipelineIdle /\ ClassifierIdle /\ CodeBlocksIdle /\ ListsIdle /\ WebhookIdle

NextClassify == IsMarkdownCall

SpecClassify == InitClassify /\ [][NextClassify]_vars

\* the highlighter and the reducer's code-block pass on every document considered
InitCodeBlocks ==
    /\ content = <<>>
    /\ doc \in DocsUpTo(MaxBlocks)
    /\ hlOut = NoHlOut
    /\ fenceOut = NoFenceOut
    /\ PipelineIdle /\ ClassifierIdle /\ ListsIdle /\ WebhookIdle

NextCodeBlocks == FormatRichText \/ ConvertCodeBlocks

SpecCodeBlocks == InitCodeBlocks /\ [][NextCodeBlocks]_vars

\* the reducer's list pass on every list considered
InitLists ==
    /\ content = <<>>
    /\ tree \in Trees
    /\ cursor = Idle
    /\ emitted = <<>>
    /\ PipelineIdle /\ ClassifierIdle /\ CodeBlocksIdle /\ WebhookIdle

NextLists == ConvertListsStart \/ ConvertUlItem \/ ConvertOlItem \/ ConvertListsEnd

SpecLists == InitLists /\ [][NextLists]_vars

\* the webhook on every request considered
InitWebhook ==
    /\ content = <<>>
    /\ req \in Requests
    /\ resp = NoResponse
    /\ revalidated = <<>>
    /\ PipelineIdle /\ ClassifierIdle /\ CodeBlocksIdle /\ ListsIdle

NextWebhook == POST

SpecWebhook == InitWebhook /\ [][NextWebhook]_vars

----------------------------------------------------------------------------
(* Properties *)

\* the hint formatContent honors: the first element of a sequence (none for
\* an empty one), otherwise the hint itself
HintOf(ct) ==
    IF ct.tag = "array"
    THEN IF Len(ct.arr) = 0 THEN Undefined ELSE Str(Head(ct.arr))
    ELSE ct

InTrace(f) == \E k \in 1..Len(result.trace) : result.trace[k] = f

Last(q) == q[Len(q)]

\* C1: every call of formatContent that returns, returns the output of the
\* highlighter: formatRichText is the last function called and the last
\* transformation applied to the content, and nothing is raised.
C1_HighlighterLast ==
    result.called =>
        /\ ~result.raised
        /\ result.src = content
        /\ result.ops # <<>>
        /\ Last(result.ops) = "formatRichText"
        /\ Last(result.trace) = "formatRichText"

\* a call with the markdown hint whose reducer failed has returned
C1_Witness ==
    /\ result.called
    /\ HintOf(contentType) = Str("markdown")
    /\ InTrace("htmlToMarkdown")
    /\ failAt # 0

\* C2: with the hint "markdown" the classifier is never consulted; content
\* with an HTML tag goes through the reducer, then the renderer on the
\* reducer's output, then the highlighter; content without one is rendered
\* and highlighted with no reduction.
C2_MarkdownHintOrder ==
    (result.called /\ HintOf(contentType) = Str("markdown")) =>
        /\ ~InTrace("isMarkdown")
        /\ IF countHtmlTags(content) >= 1
           THEN /\ result.trace = <<"hasHtmlTags", "htmlToMarkdown",
                                    "formatMarkdown", "formatRichText">>
                /\ result.ops = (IF failAt = 0 THEN ReducerSteps ELSE <<>>)
                                    \o <<"formatMarkdown", "formatRichText">>
           ELSE /\ result.trace = <<"hasHtmlTags", "formatMarkdown",
                                    "formatRichText">>
                /\ result.ops = <<"formatMarkdown", "formatRichText">>

\* a markdown-hinted call on content with a tag, reduced without failure
C2_Witness ==
    /\ result.called
    /\ contentType = Str("markdown")
    /\ countHtmlTags(content) >= 1
    /\ failAt = 0
    /\ InTrace("htmlToMarkdown")

\* C3: the classifier runs exactly when the honored hint is neither
\* "markdown" nor "html"; with "html" only the highlighter runs; in the
\* fall-through case the verdict alone selects render-then-highlight
\* (no reducer) or highlight only.
C3_ClassifierIffFallThrough ==
    result.called =>
        LET h == HintOf(contentType)
            fallThrough == h # Str("markdown") /\ h # Str("html")
        IN  /\ InTrace("isMarkdown") <=> fallThrough
            /\ h = Str("html") =>
                  /\ result.trace = <<"formatRichText">>
                  /\ result.ops = <<"formatRichText">>
            /\ fallThrough =>
                  IF isMarkdown(content)
                  THEN /\ result.trace = <<"isMarkdown", "formatMarkdown",
                                           "formatRichText">>
                       /\ result.ops = <<"formatMarkdown", "formatRichText">>
                  ELSE /\ result.trace = <<"isMarkdown", "formatRichText">>
                       /\ result.ops = <<"formatRichText">>

\* an empty sequence hint on content with a tag that is classified Markdown
C3_Witness ==
    /\ result.called
    /\ contentType = Arr(<<>>)
    /\ countHtmlTags(content) >= 1
    /\ isMarkdown(content)
    /\ InTrace("isMarkdown")

\* C4: with a non-empty sequence hint the call takes the path and returns
\* the result of the call with the first element alone.
C4_FirstElementOnly ==
    (result.called /\ contentType.tag = "array" /\ contentType.arr # <<>>) =>
        result = formatContent(content, Str(Head(contentType.arr)), failAt)

\* the hint ["markdown", "html"] on content with a tag
C4_Witness ==
    /\ result.called
    /\ contentType = Arr(<<"markdown", "html">>)
    /\ countHtmlTags(content) >= 1
    /\ InTrace("htmlToMarkdown")

\* C8: when a step of the reducer throws, nothing is raised to the caller
\* and the reducer returns the html it was given: no reduction step shows in
\* the value that is then rendered and highlighted.
C8_ReducerFailureAbsorbed ==
    (/\ result.called
     /\ HintOf(contentType) = Str("markdown")
     /\ countHtmlTags(content) >= 1
     /\ failAt # 0) =>
        /\ ~result.raised
        /\ result.src = content
        /\ result.ops = <<"formatMarkdown", "formatRichText">>

\* the list pass of the reducer threw in a markdown-hinted call
C8_Witness ==
    /\ result.called
    /\ contentType = Str("markdown")
    /\ InTrace("htmlToMarkdown")
    /\ failAt # 0
    /\ ReducerSteps[failAt] = "convertLists"

\* C5: isMarkdown yields Markdown exactly for content that is not blank and
\* has either no tag and at least one pattern category, or one to four tags
\* and at least two categories; five or more tags always give HTML, and the
\* tag-presence test agrees with a tag count of at least one.
C5_ClassifierRule ==
    verdict.called =>
        LET tagCount == countHtmlTags(content)
            patternCount == countMarkdownPatterns(content)
            blank == \A k \in 1..Len(content) : content[k] \in Whitespace
        IN  /\ verdict.markdown <=>
                  /\ ~blank
                  /\ \/ tagCount = 0 /\ patternCount >= 1
                     \/ 1 <= tagCount /\ tagCount < 5 /\ patternCount >= 2
            /\ tagCount >= 5 => ~verdict.markdown
            /\ hasHtmlTags(content) <=> tagCount >= 1

\* content with five tags and two pattern categories has been classified
C5_Witness ==
    /\ verdict.called
    /\ countHtmlTags(content) = 5
    /\ countMarkdownPatterns(content) >= 2
    /\ ~verdict.markdown

\* the secret of the request and the configured secret are both present and
\* the same string
SecretMatches == req.secret.tag = "string" /\ req.env.tag = "string"
                    /\ req.secret.str = req.env.str

\* the body is {contents: {id, tags: [...]}} with an id
PayloadShape ==
    /\ req.body.json
    /\ req.body.hasContents
    /\ req.body.contentsId # ""
    /\ req.body.tags.kind = "array"

Range(q) == {q[k] : k \in 1..Len(q)}

\* C6: a request whose secret does not match (either one absent included) is
\* answered 401 and no path is revalidated; a matching request with a
\* {contents: {id, tags}} body revalidates exactly /articles/<id>, /, /search
\* and /tags/<t> for every tag with an id, and is answered with a success
\* carrying the content id.
C6_Webhook ==
    resp.done =>
        /\ ~SecretMatches => resp.status = 401 /\ revalidated = <<>>
        /\ (SecretMatches /\ PayloadShape) =>
              /\ resp.status = 200
              /\ resp.revalidated
              /\ resp.contentId = req.body.contentsId
              /\ Range(revalidated) =
                    { <<"articles", req.body.contentsId>>, <<>>, <<"search">> }
                      \cup { <<"tags", t>> : t \in Range(req.body.tags.items) \ {""} }

\* a matching request for content abc with one tag that has an id and one
\* that has none has been answered
C6_Witness ==
    /\ resp.done
    /\ SecretMatches
    /\ req.body.contentsId = "abc"
    /\ req.body.tags = [kind |-> "array", items |-> <<"t1", "">>]
    /\ resp.status = 200

\* the space-separated class list v holds the class name
HasClassName(v, name) ==
    \E i \in 1..Len(v) :
        /\ At(v, i, name)
        /\ (i = 1 \/ v[i - 1] = " ")
        /\ (i + Len(name) = Len(v) + 1 \/ v[i + Len(name)] = " ")

\* C7: formatRichText raises nothing; a block with no or an empty class, or
\* with a language token highlight.js does not know, is highlighted by
\* automatic detection, a block with a known token by that language; every
\* code element ends with the highlighted markup and the class hljs.
C7_HighlightNeverRaises ==
    hlOut.called =>
        /\ ~hlOut.raised
        /\ Len(hlOut.blocks) = Len(doc)
        /\ Len(hlOut.hows) = Len(doc)
        /\ \A k \in 1..Len(doc) :
              LET a == doc[k].class
                  token == FirstToken(StripLanguagePrefix(a.value))
              IN  /\ hlOut.blocks[k].html = "highlighted"
                  /\ hlOut.blocks[k].class.present
                  /\ HasClassName(hlOut.blocks[k].class.value, HljsClass)
                  /\ hlOut.hows[k] =
                        IF a.present /\ a.value # <<>> /\ token \in RegisteredLanguages
                        THEN "highlight" ELSE "highlightAuto"

\* a document whose last block declares an unknown language has been
\* highlighted
C7_Witness ==
    /\ hlOut.called
    /\ doc # <<>>
    /\ doc[Len(doc)].class = Class(LanguagePrefix \o <<"z", "z">>)
    /\ hlOut.hows[Len(doc)] = "highlightAuto"

\* C9: when the list pass has run over an ordered list, the k-th item
\* replaced carries the number k.
C9_OrderedNumbers ==
    (cursor.phase = "done" /\ tree.tag = "ol") =>
        \A k \in 1..Len(emitted) : emitted[k].num = k

\* C10: the language convertCodeBlocks writes after the opening fence is the
\* token the highlighter extracts from the same class attribute.
C10_FenceLanguageIsToken ==
    fenceOut.called =>
        \A k \in 1..Len(doc) :
            fenceOut.langs[k] =
                FirstToken(StripLanguagePrefix(ClassOrEmpty(doc[k].class)))

----------------------------------------------------------------------------
(* The pattern count on task lists: src/libs/utils.ts lines 64-86 *)

\* a sample that holds every construct of the Pattern Library, one per line:
\* heading, list item, numbered item, fenced code, image (and the link in
\* it), bold with asterisks, bold with underscores, quote, rule, table row,
\* checked box, unchecked box
FullSample ==
    <<"#", " ", "a", "\n">>
        \o <<"-", " ", "a", "\n">>
        \o <<"1", ".", " ", "a", "\n">>
        \o <<Backtick, Backtick, Backtick, "a", Backtick, Backtick, Backtick, "\n">>
        \o <<"!", "[", "a", "]", "(", "b", ")", "\n">>
        \o <<"*", "*", "a", "*", "*", "\n">>
        \o <<"_", "_", "a", "_", "_", "\n">>
        \o <<">", " ", "a", "\n">>
        \o <<"-", "-", "-", "\n">>
        \o <<"|", "a", "|", "\n">>
        \o <<"[", "x", "]", "\n">>
        \o <<"[", " ", "]">>

\* the pieces of task-list content: a checked box, an unchecked box, a line
\* break, a tag, and the full sample
BoxSegments ==
    { <<"[", "x", "]">>,
      <<"[", " ", "]">>,
      <<"\n">>,
      <<"<", "a", ">">>,
      FullSample }

RECURSIVE BoxContentsUpTo(_)
BoxContentsUpTo(n) ==
    IF n = 0 THEN {<<>>}
    ELSE LET shorter == BoxContentsUpTo(n - 1)
         IN  shorter \cup {c \o g : c \in shorter, g \in BoxSegments}

\* isMarkdown on every task-list content considered
InitBoxes ==
    /\ content \in BoxContentsUpTo(MaxBoxSegs)
    /\ PipelineIdle /\ ClassifierIdle /\ CodeBlocksIdle /\ ListsIdle /\ WebhookIdle

NextBoxes == IsMarkdownCall

SpecBoxes == InitBoxes /\ [][NextBoxes]_vars

\* C11: the pattern count never exceeds 15, the checked and the unchecked
\* checkbox being one category: content whose only Markdown signals are a
\* checked and an unchecked box has pattern count 1, and with one to four
\* tags it is classified HTML.
C11_CheckboxOneCategory ==
    verdict.called =>
        LET m == MARKDOWN_PATTERNS(content)
            patternCount == countMarkdownPatterns(content)
            tagCount == countHtmlTags(content)
            onlyBoxes == /\ \A k \in 1..(Len(m) - 2) : ~m[k]
                         /\ m[Len(m) - 1]
                         /\ m[Len(m)]
        IN  /\ patternCount <= 15
            /\ onlyBoxes => patternCount = 1
            /\ (onlyBoxes /\ 1 <= tagCount /\ tagCount < 5) => ~verdict.markdown

====
